---------------------------- MODULE Spec2Model ----------------------------
(***************************************************************************)
(* Networking App API (src/main.py, src/schemas.py): the profile and       *)
(* project collections, the create/update handlers and the /api/matches    *)
(* scoring handler.  Every handler is cut at its database calls: one       *)
(* action per database call together with the Python that follows it up    *)
(* to the next call or the return.                                         *)
(*                                                                         *)
(* Representation.                                                         *)
(*   - an ObjectId is a positive integer; a document's _id is its position *)
(*     in its collection (insertion order, the order find({}) returns);    *)
(*   - an id *string* is a record [kind, n]: kind "hex" is the 24-digit    *)
(*     hexadecimal text of ObjectId n, kind "junk" is any other non-empty  *)
(*     text, kind "empty" is "";                                           *)
(*   - an Optional[T] payload field is a set with at most one element:     *)
(*     {} is None, {v} is the value v;                                     *)
(*   - match_score is kept in units of 0.5 (an integer number of halves),  *)
(*     so 2*a + b + 0.5*c is stored as 4*a + 2*b + c.                      *)
(***************************************************************************)
EXTENDS Integers, Sequences, FiniteSets, TLC

VARIABLES
    profiles,   \* the "profile" collection, in insertion order
    projects,   \* the "project" collection, in insertion order
    pc,         \* per worker: the database call its handler makes next
    req,        \* per worker: the request it is handling
    loc,        \* per worker: the handler's local variables
    out,        \* the response the last step sent, with its request
    precheck    \* history: per stored profile, how many profiles the
                \* collection held when its create_profile ran find_one

vars == <<profiles, projects, pc, req, loc, out, precheck>>

(***************************** bounds *************************************)
\* most documents the profile collection holds in Spec
MaxProfiles == 2
\* most documents the project collection holds in Spec
MaxProjects == 1
\* largest corpus drawn by InitMatch
MaxCorpus == 3

\* request handlers that may be in flight at once
Workers == {"w1", "w2"}

None == {}
Some(v) == {v}
Unwrap(o) == CHOOSE v \in o : TRUE

Range(s) == {s[i] : i \in 1..Len(s)}

Min(a, b) == IF a <= b THEN a ELSE b
Max(a, b) == IF a >= b THEN a ELSE b

(************************* ids and their text *****************************)
HexStr(n) == [kind |-> "hex", n |-> n]
JunkStr == [kind |-> "junk", n |-> 0]
EmptyStr == [kind |-> "empty", n |-> 0]

\* bson.ObjectId(s) raises InvalidId unless s is 24 hexadecimal digits
ObjectIdRaises(s) == s.kind # "hex"
ObjectId(s) == s.n

\* Python truthiness of a str
StrTruthy(s) == s.kind # "empty"

\* serialize_doc: _id leaves the document, id = str(_id) enters it
serialize_doc(doc) ==
    [f \in (DOMAIN doc \ {"_id"}) \cup {"id"} |->
        IF f = "id" THEN HexStr(doc._id) ELSE doc[f]]

(**************************** the store ***********************************)
\* collection.find_one({"_id": oid}): the set holding the document, or {}
find_by_id(coll, oid) == {coll[i] : i \in {j \in 1..Len(coll) : coll[j]._id = oid}}

\* collection.find_one({"email": e}): the first document with that email, or {}
find_one_email(coll, e) ==
    LET hits == {i \in 1..Len(coll) : coll[i].email = e}
    IN  IF hits = {} THEN None
        ELSE Some(coll[CHOOSE i \in hits : \A j \in hits : i <= j])

\* create_document(collection, payload): the payload's fields stored under a
\* fresh _id
create_document(coll, payload) ==
    Append(coll, [f \in DOMAIN payload \cup {"_id"} |->
                    IF f = "_id" THEN Len(coll) + 1 ELSE payload[f]])

(************************ handler bookkeeping ******************************)
NoReq == [op |-> "none"]
NoResp == [status |-> 0, kind |-> "none", doc |-> None, results |-> <<>>]
NoOut == [w |-> "none", req |-> NoReq, loc |-> None, resp |-> NoResp]

\* return serialize_doc(doc)
DocResp(doc) == [status |-> 200, kind |-> "doc", doc |-> Some(doc), results |-> <<>>]
\* return {"results": top}
ResultsResp(top) == [status |-> 200, kind |-> "results", doc |-> None, results |-> top]
\* return {"updated": False}
NotUpdatedResp == [status |-> 200, kind |-> "updated_false", doc |-> None, results |-> <<>>]
\* raise HTTPException(status_code=code)
ErrorResp(code) == [status |-> code, kind |-> "error", doc |-> None, results |-> <<>>]

\* the handler returns or raises: the response leaves, the worker is free
Return(w, request, locals, response) ==
    /\ pc' = [pc EXCEPT ![w] = "idle"]
    /\ req' = [req EXCEPT ![w] = NoReq]
    /\ loc' = [loc EXCEPT ![w] = None]
    /\ out' = [w |-> w, req |-> request, loc |-> locals, resp |-> response]

\* the handler goes on to its next database call
Goto(w, label, request, locals) ==
    /\ pc' = [pc EXCEPT ![w] = label]
    /\ req' = [req EXCEPT ![w] = request]
    /\ loc' = [loc EXCEPT ![w] = locals]
    /\ out' = NoOut

(************************** matching engine *******************************)
\* limit: int = 10
DefaultLimit == 10

\* `x or []` for an Optional[List[str]]
OrEmptyList(o) == IF o = None THEN <<>> ELSE Unwrap(o)

\* lines 235-240: the base sets, from the resolved profile or from the body
base_skills(base_profile, payload) ==
    IF base_profile # None THEN Range(Unwrap(base_profile).skills)
    ELSE Range(OrEmptyList(payload.skills))

base_interests(base_profile, payload) ==
    IF base_profile # None THEN Range(Unwrap(base_profile).interests)
    ELSE Range(OrEmptyList(payload.interests))

\* the lists are not collapsed to sets: every occurrence counts
score_per_occurrence(bskills, binterests, c) ==
    LET occ(s, keep(_)) == Cardinality({i \in 1..Len(s) : keep(s[i])})
    IN  4 * occ(c.interests, LAMBDA x : x \in binterests)
        + 2 * occ(c.skills, LAMBDA x : x \in bskills)
        + occ(c.skills, LAMBDA x : x \notin bskills)

\* the complement term is left out
score_no_complement(bskills, binterests, c) ==
    4 * Cardinality(binterests \cap Range(c.interests))
    + 2 * Cardinality(bskills \cap Range(c.skills))

\* lines 247-252, in halves: 2*shared_interests + shared_skills + 0.5*complement
score(bskills, binterests, c) ==
    LET skills == Range(c.skills)
        interests == Range(c.interests)
        shared_interests == Cardinality(binterests \cap interests)
        complement_skills == Cardinality(skills \ bskills)
        shared_skills == Cardinality(bskills \cap skills)
    IN  4 * shared_interests + 2 * shared_skills + complement_skills

\* c.get("id") read where "_id" is meant: never equal, nothing is skipped
is_base_wrong_key(base_profile, c) == FALSE

\* line 245: the candidate is the base profile itself
is_base(base_profile, c) ==
    base_profile # None /\ c._id = Unwrap(base_profile)._id

\* lines 243-253: the (score, candidate) pairs, the base profile skipped
scored_list(base_profile, payload, candidates) ==
    LET kept == SelectSeq(candidates, LAMBDA c : ~is_base(base_profile, c))
    IN  [i \in 1..Len(kept) |->
            [s |-> score(base_skills(base_profile, payload),
                         base_interests(base_profile, payload), kept[i]),
             c |-> kept[i]]]

\* an unstable sort: an element goes in front of the elements with its key
RECURSIVE insert_desc_unstable(_, _)
insert_desc_unstable(sorted, x) ==
    IF sorted = <<>> THEN <<x>>
    ELSE IF Head(sorted).s > x.s
         THEN <<Head(sorted)>> \o insert_desc_unstable(Tail(sorted), x)
    ELSE <<x>> \o sorted

\* list.sort(key=score, reverse=True): stable, so an element goes behind every
\* element whose key is not smaller
RECURSIVE insert_desc(_, _)
insert_desc(sorted, x) ==
    IF sorted = <<>> THEN <<x>>
    ELSE IF Head(sorted).s >= x.s THEN <<Head(sorted)>> \o insert_desc(Tail(sorted), x)
    ELSE <<x>> \o sorted

RECURSIVE sort_desc(_)
sort_desc(s) ==
    IF s = <<>> THEN <<>>
    ELSE insert_desc(sort_desc(SubSeq(s, 1, Len(s) - 1)), s[Len(s)])

\* s[:limit]: a negative limit drops that many elements from the end
py_slice(s, limit) ==
    IF limit >= 0 THEN SubSeq(s, 1, Min(limit, Len(s)))
    ELSE SubSeq(s, 1, Max(0, Len(s) + limit))

\* serialize_doc(c) | {"match_score": s}
result_entry(p) ==
    LET d == serialize_doc(p.c)
    IN  [f \in DOMAIN d \cup {"match_score"} |->
            IF f = "match_score" THEN p.s ELSE d[f]]

\* lines 254-255
top_results(base_profile, payload, candidates) ==
    LET scored == sort_desc(scored_list(base_profile, payload, candidates))
        cut == py_slice(scored, payload.limit)
    IN  [i \in 1..Len(cut) |-> result_entry(cut[i])]

\* lines 232-234: resolve the base profile (find_one), or fail on a profile_id
\* that is no ObjectId text (line 257: any exception becomes a 400)
MatchFindBase(w, payload) ==
    /\ pc[w] = "idle"
    /\ UNCHANGED <<profiles, projects, precheck>>
    /\ LET request == [op |-> "get_matches", payload |-> payload]
       IN  IF payload.profile_id # None /\ StrTruthy(Unwrap(payload.profile_id))
           THEN IF ObjectIdRaises(Unwrap(payload.profile_id))
                THEN Return(w, request, None, ErrorResp(400))
                ELSE Goto(w, "m_fetch", request,
                          find_by_id(profiles, ObjectId(Unwrap(payload.profile_id))))
           ELSE Goto(w, "m_fetch", request, None)

\* the fetch step also writes the base profile back with its skills emptied
MatchFetchWritesBack(w) ==
    /\ pc[w] = "m_fetch"
    /\ profiles' = [i \in 1..Len(profiles) |->
                      IF is_base(loc[w], profiles[i])
                      THEN [profiles[i] EXCEPT !.skills = <<>>] ELSE profiles[i]]
    /\ UNCHANGED <<projects, precheck>>
    /\ Return(w, req[w], loc[w],
              ResultsResp(top_results(loc[w], req[w].payload, profiles)))

\* lines 242-256: fetch the corpus (find({})), score, sort, cut, answer
MatchFetch(w) ==
    /\ pc[w] = "m_fetch"
    /\ UNCHANGED <<profiles, projects, precheck>>
    /\ Return(w, req[w], loc[w],
              ResultsResp(top_results(loc[w], req[w].payload, profiles)))

(********************** the matching engine alone *************************)
EmailNames == <<"e1", "e2", "e3", "e4", "e5">>

\* Profile, as create_profile stores it: the fields the handlers read or write
NewProfile(email, skills, interests) ==
    [email |-> email, name |-> "n1", skills |-> skills, interests |-> interests]

Stored(i, payload) ==
    [f \in DOMAIN payload \cup {"_id"} |-> IF f = "_id" THEN i ELSE payload[f]]

CorpusSkills == {<<>>, <<"a", "a">>, <<"b", "a">>}
CorpusInterests == {<<>>, <<"x", "x">>}

\* every corpus of at most MaxCorpus stored profiles, created one after the
\* other with distinct emails
Corpora ==
    UNION {{[i \in 1..n |-> Stored(i, NewProfile(EmailNames[i], f[i][1], f[i][2]))]
            : f \in [1..n -> CorpusSkills \X CorpusInterests]}
           : n \in 0..MaxCorpus}

MatchIds ==
    {None, Some(EmptyStr), Some(JunkStr)} \cup {Some(HexStr(n)) : n \in 1..MaxCorpus + 1}

MatchPayloads ==
    [profile_id : MatchIds,
     skills : {None, Some(<<"a", "c", "a">>)},
     interests : {None, Some(<<"x", "x">>)},
     limit : {-1, 0, 2, DefaultLimit}]

IdleWorkers ==
    /\ pc = [w \in Workers |-> "idle"]
    /\ req = [w \in Workers |-> NoReq]
    /\ loc = [w \in Workers |-> None]
    /\ out = NoOut

InitMatch ==
    /\ profiles \in Corpora
    /\ precheck = [i \in 1..Len(profiles) |-> i - 1]
    /\ projects = <<>>
    /\ IdleWorkers

\* one request per behaviour, handled by one worker
NextMatch ==
    \/ out = NoOut /\ \E payload \in MatchPayloads : MatchFindBase("w1", payload)
    \/ MatchFetch("w1")

SpecMatch == InitMatch /\ [][NextMatch]_vars

(***************************** profiles ***********************************)
\* create_document returns the text of the _id it stored
inserted_id(coll) == HexStr(Len(coll) + 1)

\* the lookup filters on the wrong stored field and finds nothing
find_one_wrong_field(coll, e) ==
    LET hits == {i \in 1..Len(coll) : coll[i].name = e}
    IN  IF hits = {} THEN None
        ELSE Some(coll[CHOOSE i \in hits : \A j \in hits : i <= j])

existing_profile_wrong_field(coll, payload) ==
    find_one_wrong_field(coll, payload.email)

\* line 88: find_one({"email": payload.email})
existing_profile(coll, payload) == find_one_email(coll, payload.email)

\* lines 88-90: look for a profile with the payload's email; 409 when one is
\* stored.  The insert is a later database call.
CreateProfileFind(w, payload) ==
    /\ pc[w] = "idle"
    /\ UNCHANGED <<profiles, projects, precheck>>
    /\ LET request == [op |-> "create_profile", payload |-> payload]
       IN  IF existing_profile(profiles, payload) # None
           THEN Return(w, request, None, ErrorResp(409))
           ELSE /\ Len(profiles) + Cardinality({v \in Workers : pc[v] = "cp_insert"})
                     < MaxProfiles
                /\ Goto(w, "cp_insert", request, Some(Len(profiles)))

\* line 91: create_document(...) stores the payload under a fresh _id
CreateProfileInsert(w) ==
    /\ pc[w] = "cp_insert"
    /\ profiles' = create_document(profiles, req[w].payload)
    /\ precheck' = Append(precheck, Unwrap(loc[w]))
    /\ UNCHANGED projects
    /\ Goto(w, "cp_read", req[w], Some(inserted_id(profiles)))

\* lines 92-93: read the stored document back and return it
CreateProfileRead(w) ==
    /\ pc[w] = "cp_read"
    /\ UNCHANGED <<profiles, projects, precheck>>
    /\ Return(w, req[w], loc[w],
              DocResp(serialize_doc(
                  Unwrap(find_by_id(profiles, ObjectId(Unwrap(loc[w])))))))

\* payload fields that hold lists
ListFields == {"skills", "interests", "tags", "roles_needed"}

\* `if v` where `is not None` is meant: a supplied empty list is dropped too
exclude_falsy(payload) ==
    [f \in {g \in DOMAIN payload :
              /\ payload[g] # None
              /\ ~(g \in ListFields /\ Len(Unwrap(payload[g])) = 0)}
       |-> Unwrap(payload[f])]

\* payload.model_dump(exclude_none=True): the fields that are not None
exclude_none(payload) ==
    [f \in {g \in DOMAIN payload : payload[g] # None} |-> Unwrap(payload[f])]

\* {"$set": update_data} on one document
set_fields(doc, update_data) ==
    [f \in DOMAIN doc \cup DOMAIN update_data |->
        IF f \in DOMAIN update_data THEN update_data[f] ELSE doc[f]]

\* update_one({"_id": oid}, {"$set": update_data})
update_one(coll, oid, update_data) ==
    [i \in 1..Len(coll) |->
        IF coll[i]._id = oid THEN set_fields(coll[i], update_data) ELSE coll[i]]

\* res.matched_count
matched_count(coll, oid) == Cardinality({i \in 1..Len(coll) : coll[i]._id = oid})

\* lines 130-137: drop the None fields; nothing left returns {"updated": False};
\* an id that is no ObjectId text raises (400); no match is a 404; else $set
UpdateProfileUpdateOne(w, profile_id, payload) ==
    /\ pc[w] = "idle"
    /\ UNCHANGED <<projects, precheck>>
    /\ LET request == [op |-> "update_profile", id |-> profile_id, payload |-> payload]
           update_data == exclude_none(payload)
       IN  IF DOMAIN update_data = {}
           THEN UNCHANGED profiles /\ Return(w, request, None, NotUpdatedResp)
           ELSE IF ObjectIdRaises(profile_id)
           THEN UNCHANGED profiles /\ Return(w, request, None, ErrorResp(400))
           ELSE IF matched_count(profiles, ObjectId(profile_id)) = 0
           THEN UNCHANGED profiles /\ Return(w, request, None, ErrorResp(404))
           ELSE /\ profiles' = update_one(profiles, ObjectId(profile_id), update_data)
                /\ Goto(w, "up_read", request, None)

\* lines 138-139: read the document back and return it
UpdateProfileFindOne(w) ==
    /\ pc[w] = "up_read"
    /\ UNCHANGED <<profiles, projects, precheck>>
    /\ Return(w, req[w], None,
              DocResp(serialize_doc(Unwrap(find_by_id(profiles, ObjectId(req[w].id))))))

(***************************** projects ***********************************)
\* Project, as create_project stores it
NewProject(owner_id, title) ==
    [owner_id |-> owner_id, title |-> title, tags |-> <<"g">>, status |-> "open"]

\* line 164: create_document(...) stores the payload under a fresh _id
CreateProjectInsert(w, payload) ==
    /\ pc[w] = "idle"
    /\ Len(projects) < MaxProjects
    /\ projects' = create_document(projects, payload)
    /\ UNCHANGED <<profiles, precheck>>
    /\ Goto(w, "pj_read", [op |-> "create_project", payload |-> payload],
            Some(inserted_id(projects)))

\* lines 165-166: read the stored document back and return it
CreateProjectRead(w) ==
    /\ pc[w] = "pj_read"
    /\ UNCHANGED <<profiles, projects, precheck>>
    /\ Return(w, req[w], loc[w],
              DocResp(serialize_doc(
                  Unwrap(find_by_id(projects, ObjectId(Unwrap(loc[w])))))))

\* lines 200-207: as update_profile, on the project collection
UpdateProjectUpdateOne(w, project_id, payload) ==
    /\ pc[w] = "idle"
    /\ UNCHANGED <<profiles, precheck>>
    /\ LET request == [op |-> "update_project", id |-> project_id, payload |-> payload]
           update_data == exclude_none(payload)
       IN  IF DOMAIN update_data = {}
           THEN UNCHANGED projects /\ Return(w, request, None, NotUpdatedResp)
           ELSE IF ObjectIdRaises(project_id)
           THEN UNCHANGED projects /\ Return(w, request, None, ErrorResp(400))
           ELSE IF matched_count(projects, ObjectId(project_id)) = 0
           THEN UNCHANGED projects /\ Return(w, request, None, ErrorResp(404))
           ELSE /\ projects' = update_one(projects, ObjectId(project_id), update_data)
                /\ Goto(w, "pu_read", request, None)

\* lines 208-209: read the document back and return it
UpdateProjectFindOne(w) ==
    /\ pc[w] = "pu_read"
    /\ UNCHANGED <<profiles, projects, precheck>>
    /\ Return(w, req[w], None,
              DocResp(serialize_doc(Unwrap(find_by_id(projects, ObjectId(req[w].id))))))

(********************** the service, concurrent ***************************)
ServiceCreates == {NewProfile(e, <<"a">>, <<"x">>) : e \in {"e1", "e2"}}

ServicePatches == {[name |-> None, skills |-> Some(<<"b">>), interests |-> None]}

ServiceIds == {HexStr(n) : n \in 1..MaxProfiles}

ServiceMatches ==
    [profile_id : {None, Some(JunkStr)} \cup {Some(s) : s \in ServiceIds},
     skills : {None}, interests : {None}, limit : {1, DefaultLimit}]

Init ==
    /\ profiles = <<>>
    /\ precheck = <<>>
    /\ projects = <<>>
    /\ IdleWorkers

Next ==
    \E w \in Workers :
        \/ \E payload \in ServiceCreates : CreateProfileFind(w, payload)
        \/ CreateProfileInsert(w)
        \/ CreateProfileRead(w)
        \/ \E id \in ServiceIds, payload \in ServicePatches :
              UpdateProfileUpdateOne(w, id, payload)
        \/ UpdateProfileFindOne(w)
        \/ CreateProjectInsert(w, NewProject(HexStr(1), "t1"))
        \/ CreateProjectRead(w)
        \/ \E payload \in ServiceMatches : MatchFindBase(w, payload)
        \/ MatchFetch(w)

Spec == Init /\ [][Next]_vars

(********************* the update handlers, concurrent ********************)
\* the stored profiles and projects the updates start from
ProfileStore ==
    [i \in 1..MaxProfiles |-> Stored(i, NewProfile(EmailNames[i], <<"a">>, <<"x">>))]

ProjectStore ==
    [i \in 1..MaxProjects |-> Stored(i, NewProject(HexStr(1), "t1"))]

\* path parameters: the stored ids, a 24-digit id that is not stored, and a
\* text that is no ObjectId
PathIds(coll) == {HexStr(i) : i \in 1..Len(coll) + 1} \cup {JunkStr}

ProfilePatches ==
    [name : {None, Some("n2")}, skills : {None, Some(<<>>)}, interests : {None}]

ProjectPatches ==
    {[title |-> None, tags |-> None, status |-> None],
     [title |-> Some("t2"), tags |-> None, status |-> Some("completed")]}

InitUpdate ==
    /\ profiles = ProfileStore
    /\ precheck = [i \in 1..Len(profiles) |-> i - 1]
    /\ projects = ProjectStore
    /\ IdleWorkers

NextUpdate ==
    \E w \in Workers :
        \/ \E id \in PathIds(profiles), payload \in ProfilePatches :
              UpdateProfileUpdateOne(w, id, payload)
        \/ UpdateProfileFindOne(w)
        \/ \E id \in PathIds(projects), payload \in ProjectPatches :
              UpdateProjectUpdateOne(w, id, payload)
        \/ UpdateProjectFindOne(w)

SpecUpdate == InitUpdate /\ [][NextUpdate]_vars

(*********************** properties: matching *****************************)
Tags == {"a", "b", "c", "x"}

Occurs(x, s) == \E i \in 1..Len(s) : s[i] = x

\* the last step answered a match request with results
MatchAnswered == out.req.op = "get_matches" /\ out.resp.kind = "results"

\* the request names a profile the store holds
Resolved(payload) ==
    /\ payload.profile_id # None
    /\ Unwrap(payload.profile_id).kind = "hex"
    /\ Unwrap(payload.profile_id).n \in 1..Len(profiles)

\* the base list of a request: the named profile's, else the body's, else empty
BaseList(payload, field) ==
    IF Resolved(payload) THEN profiles[Unwrap(payload.profile_id).n][field]
    ELSE IF payload[field] = None THEN <<>>
    ELSE Unwrap(payload[field])

\* twice the documented score of candidate c, duplicates counted once
ExpectedHalves(payload, c) ==
    4 * Cardinality({x \in Tags : Occurs(x, BaseList(payload, "interests"))
                                    /\ Occurs(x, c.interests)})
    + 2 * Cardinality({x \in Tags : Occurs(x, BaseList(payload, "skills"))
                                      /\ Occurs(x, c.skills)})
    + Cardinality({x \in Tags : Occurs(x, c.skills)
                                  /\ ~Occurs(x, BaseList(payload, "skills"))})

\* the stored profiles a request scores: all but the resolved base
CandidateIds(payload) ==
    {i \in 1..Len(profiles) :
        ~(Resolved(payload) /\ i = Unwrap(payload.profile_id).n)}

\* the stored profile a result entry stands for
EntryProfile(e) == profiles[e.id.n]

\* C1: every entry of a match response carries match_score = 2*|shared
\* interests| + |shared skills| + 0.5*|candidate skills the base lacks| (here in
\* halves), the lists of base and candidate counted as sets; and a request whose
\* limit covers the corpus returns every candidate but the base.
C1_ScoreFormula ==
    MatchAnswered =>
        LET payload == out.req.payload
            R == out.resp.results
        IN  /\ \A k \in 1..Len(R) :
                /\ R[k].id.n \in CandidateIds(payload)
                /\ R[k].match_score = ExpectedHalves(payload, EntryProfile(R[k]))
            /\ payload.limit >= Len(profiles) =>
                 {R[k].id.n : k \in 1..Len(R)} = CandidateIds(payload)

\* Scenario A's shape with duplicated entries on both sides: one shared
\* interest, one shared skill, one complement skill, 3.5 = 7 halves
C1_Witness ==
    /\ MatchAnswered
    /\ out.req.payload.skills = Some(<<"a", "c", "a">>)
    /\ out.req.payload.interests = Some(<<"x", "x">>)
    /\ \E k \in 1..Len(out.resp.results) :
          /\ out.resp.results[k].match_score = 7
          /\ out.resp.results[k].skills = <<"b", "a">>
          /\ out.resp.results[k].interests = <<"x", "x">>

\* C2: a match response holds at most min(limit, |candidates| - (1 if the base
\* profile was excluded else 0)) entries, and none when that bound is not
\* positive (limit = 0 and below).
C2_LengthWithinLimit ==
    MatchAnswered =>
        Len(out.resp.results)
            <= Max(0, Min(out.req.payload.limit,
                          Len(profiles)
                            - (IF Resolved(out.req.payload) THEN 1 ELSE 0)))

\* C4: a match response is ordered by non-increasing match_score, entries of
\* equal score keep their corpus order, and it is a leading part of that
\* ordering: no candidate left out outranks a returned one, and for a limit
\* >= 0 it holds min(limit, number of candidates) entries.
C4_RankedStablePrefix ==
    MatchAnswered =>
        LET payload == out.req.payload
            R == out.resp.results
            returned == {R[k].id.n : k \in 1..Len(R)}
        IN  /\ \A i, j \in 1..Len(R) : i < j =>
                /\ R[i].match_score >= R[j].match_score
                /\ R[i].match_score = R[j].match_score => R[i].id.n < R[j].id.n
            /\ \A c \in CandidateIds(payload) \ returned : \A k \in 1..Len(R) :
                /\ ExpectedHalves(payload, profiles[c]) <= R[k].match_score
                /\ ExpectedHalves(payload, profiles[c]) = R[k].match_score
                     => R[k].id.n < c
            /\ payload.limit >= 0 =>
                 Len(R) = Min(payload.limit, Cardinality(CandidateIds(payload)))

\* the sort moved a later profile to the front, a tie was kept in corpus order
\* and a candidate tied with the last returned entry was cut off
C4_Witness ==
    /\ MatchAnswered
    /\ out.req.payload.limit = 2
    /\ Len(out.resp.results) = 2
    /\ out.resp.results[1].id.n = 2
    /\ out.resp.results[2].id.n = 1
    /\ \E c \in CandidateIds(out.req.payload) :
          /\ c > 2
          /\ ExpectedHalves(out.req.payload, profiles[c])
               = out.resp.results[2].match_score

\* the request supplies a profile_id that names no stored profile
UnresolvedIdentity(payload) ==
    payload.profile_id # None /\ ~Resolved(payload)

\* C5: a match request whose profile_id names no stored profile is answered
\* with results, scored against empty base sets whatever the body carries.
C5_UnresolvedNeverFails ==
    (out.req.op = "get_matches" /\ UnresolvedIdentity(out.req.payload)) =>
        /\ out.resp.kind = "results"
        /\ \A k \in 1..Len(out.resp.results) :
              out.resp.results[k].match_score
                = Cardinality(Range(out.resp.results[k].skills))

\* an unresolved identity and no skills or interests in the body
BareUnresolved(payload) ==
    /\ UnresolvedIdentity(payload)
    /\ payload.skills = None
    /\ payload.interests = None

C3_BaseExcluded ==
    (MatchAnswered /\ out.loc # None) =>
        \A k \in 1..Len(out.resp.results) :
            out.resp.results[k].id # Unwrap(out.req.payload.profile_id)

\* the base profile was updated after the lookup, and a profile is returned
C3_Witness ==
    /\ MatchAnswered
    /\ out.loc # None
    /\ profiles[Unwrap(out.loc)._id] # Unwrap(out.loc)
    /\ Len(out.resp.results) >= 1

\* C7 as stated: no two stored profiles have the same email.
C7_EmailsUnique ==
    \A i, j \in 1..Len(profiles) :
        i # j => profiles[i].email # profiles[j].email

\* worker w's create_profile answers 409 in this step
Conflict(w) ==
    /\ pc[w] = "idle"
    /\ out'.w = w
    /\ out'.req.op = "create_profile"
    /\ out'.resp.status = 409

\* C7 amended: two stored profiles share an email only when the later one's
\* create_profile ran its find-existing step before the earlier one was
\* inserted; stored emails never change and no profile is removed; a
\* create_profile answers 409 exactly when its email is stored at its
\* find-existing step, and then leaves the collection unchanged.
C7_DuplicatesOnlyByRace ==
    /\ [](\A i, j \in 1..Len(profiles) :
            (i < j /\ profiles[i].email = profiles[j].email) => precheck[j] < i)
    /\ [][/\ Len(profiles') >= Len(profiles)
          /\ \A i \in 1..Len(profiles) : profiles'[i].email = profiles[i].email
          /\ \A w \in Workers :
                /\ Conflict(w) =>
                     /\ profiles' = profiles
                     /\ \E i \in 1..Len(profiles) :
                           profiles[i].email = out'.req.payload.email
                /\ (pc[w] = "idle" /\ pc'[w] = "cp_insert") =>
                     \A i \in 1..Len(profiles) :
                        profiles[i].email # req'[w].payload.email]_vars

\* two creates of one email raced into the store, a third was refused
C7_Witness ==
    /\ Len(profiles) = 2
    /\ profiles[1].email = profiles[2].email
    /\ precheck[2] = 0
    /\ out.req.op = "create_profile"
    /\ out.resp.status = 409

\* worker w's get_matches handler takes this step
MatchStepBy(w) ==
    \/ pc[w] = "idle" /\ pc'[w] = "m_fetch"
    \/ pc[w] = "m_fetch" /\ pc'[w] = "idle"
    \/ pc[w] = "idle" /\ out'.w = w /\ out'.req.op = "get_matches"

\* C10: no step of a get_matches handler, answered with results or with an
\* error, changes the profile or the project collection.
C10_MatchLeavesStore ==
    [][\A w \in Workers :
          MatchStepBy(w) => profiles' = profiles /\ projects' = projects]_vars

\* a match answered from a store that holds profiles and a project, with the
\* base profile resolved, while another match request is in flight
C10_Witness ==
    /\ MatchAnswered
    /\ out.loc # None
    /\ Len(out.resp.results) >= 1
    /\ projects # <<>>
    /\ \E v \in Workers : pc[v] = "m_fetch"

(*********************** properties: updates ******************************)
\* the collection an update request addresses
Target(request) ==
    IF request.op = "update_profile" THEN profiles ELSE projects

\* C8: an update whose id names no stored document is answered 404.
C8_MissingTargetIs404 ==
    (/\ out.req.op \in {"update_profile", "update_project"}
     /\ ~(out.req.id.kind = "hex" /\ out.req.id.n \in 1..Len(Target(out.req))))
        => out.resp.status = 404

\* collection `after` is `before` with the request's supplied fields written
\* into its target and nothing else touched
Patched(before, after, request) ==
    /\ Len(after) = Len(before)
    /\ \A i \in 1..Len(before) :
          IF before[i]._id = request.id.n
          THEN /\ DOMAIN after[i] = DOMAIN before[i]
               /\ \A f \in DOMAIN before[i] :
                     after[i][f] =
                        IF f \in DOMAIN request.payload /\ request.payload[f] # None
                        THEN Unwrap(request.payload[f])
                        ELSE before[i][f]
          ELSE after[i] = before[i]

\* d is the answer's form of the stored document with text id `id`
ReturnedFrom(coll, id, d) ==
    \E i \in 1..Len(coll) :
        /\ HexStr(coll[i]._id) = id
        /\ d.id = id
        /\ DOMAIN d = (DOMAIN coll[i] \ {"_id"}) \cup {"id"}
        /\ \A f \in DOMAIN coll[i] \ {"_id"} : d[f] = coll[i][f]

\* C9: the write of a successful update_profile or update_project sets each
\* supplied field of the target to the supplied value and changes no other
\* field, no other document and not the other collection; the document it
\* then returns is the target as stored after the patch, and reading it
\* changes nothing.
C9_UpdateFrame ==
    [][\A w \in Workers :
          /\ (pc[w] = "idle" /\ pc'[w] = "up_read") =>
                Patched(profiles, profiles', req'[w]) /\ projects' = projects
          /\ (pc[w] = "idle" /\ pc'[w] = "pu_read") =>
                Patched(projects, projects', req'[w]) /\ profiles' = profiles
          /\ (pc[w] = "up_read" /\ pc'[w] = "idle") =>
                /\ out'.resp.status = 200
                /\ ReturnedFrom(profiles, req[w].id, Unwrap(out'.resp.doc))
                /\ profiles' = profiles /\ projects' = projects
          /\ (pc[w] = "pu_read" /\ pc'[w] = "idle") =>
                /\ out'.resp.status = 200
                /\ ReturnedFrom(projects, req[w].id, Unwrap(out'.resp.doc))
                /\ profiles' = profiles /\ projects' = projects]_vars

\* an update_profile that supplied name and not skills returns the profile
\* with the new name and the old skills; the other profile is as created and
\* a project was patched as well
C9_Witness ==
    /\ out.req.op = "update_profile"
    /\ out.resp.kind = "doc"
    /\ out.req.id = HexStr(1)
    /\ out.req.payload.name = Some("n2")
    /\ out.req.payload.skills = None
    /\ Unwrap(out.resp.doc).name = "n2"
    /\ Unwrap(out.resp.doc).skills = <<"a">>
    /\ profiles[2] = ProfileStore[2]
    /\ projects[1].title = "t2"
    /\ projects[1].tags = <<"g">>

=============================================================================
